---- MODULE Spec2Model ----
(***************************************************************************)
(* Model of src/server/testcase_generator.py: the command-line script that *)
(* reads a requirements document, hands four tasks to an external agent    *)
(* framework (crew.kickoff) and exports the result as Word and JSON.       *)
(*                                                                         *)
(* A run is one process executing the script.  Several runs share the      *)
(* working directory (the file system) and the wall clock.  The external   *)
(* framework and the file system are the environment: each of their calls  *)
(* either raises or has the effect its caller relies on, chosen            *)
(* nondeterministically.  Standard output and standard error are taken to  *)
(* accept what is printed; only building the JSON text of the result       *)
(* (json.dumps) may raise.                                                 *)
(***************************************************************************)
EXTENDS Integers, Sequences, FiniteSets, TLC

VARIABLES clock, dirs, files, run

vars == <<clock, dirs, files, run>>

\* ------------------------------------------------------------------ bounds
\* Last instant of the wall clock the model reaches (in ticks).
MaxClock == 3

\* strftime('%Y%m%d_%H%M%S') has a resolution of one second; the clock of the
\* model ticks twice a second, so two instants can share a timestamp.
TicksPerSecond == 2

Runs == {1, 2}

None == 0 - 1

\* ------------------------------------------------------------- file system
FileNames ==
    { "requirements_analysis.md", "detailed_test_cases.md", "test_data_sets.json",
      "validation_report.md", "Generated_Test_Cases.docx", "test_cases_complete.json" }

\* datetime.now().strftime('%Y%m%d_%H%M%S'): the instant truncated to its second.
Timestamp(t) == t \div TicksPerSecond

Stamps == 0 .. Timestamp(MaxClock)

\* os.path.join(self.output_dir, name), output_dir = test_artifacts_<stamp>
Path(dir, name) == <<dir, name>>

Paths == Stamps \X FileNames

Contents == {"absent", "empty", "partial", "data"}

\* ------------------------------------------------------------ environment
\* os.getenv('OPENAI_API_KEY') after load_dotenv(): None, '' or a key.
KeyValues == {"unset", "empty", "set"}

\* len(sys.argv) - 1
ArgCounts == 0 .. 2

\* What crew.kickoff() returns: a mapping json can serialize, a mapping it
\* cannot, or an object without .get (a plain string, say).
ResultKinds == {"mapping_json", "mapping_nojson", "nomapping"}

\* --------------------------------------------------------------- the tasks
\* A task descriptor: its output_file and its declared dependencies.
Task(out, deps) == [output_file |-> out, dependencies |-> deps]

analyze_requirements_task(dir) ==
    Task(Path(dir, "requirements_analysis.md"), {})

generate_test_cases_task(dir) ==
    Task(Path(dir, "detailed_test_cases.md"),
         {Path(dir, "requirements_analysis.md")})

\* Variant: the data task depending on the validation report, a later task.
generate_test_data_task_late(dir) ==
    Task(Path(dir, "test_data_sets.json"),
         {Path(dir, "validation_report.md")})

generate_test_data_task(dir) ==
    Task(Path(dir, "test_data_sets.json"),
         {Path(dir, "detailed_test_cases.md")})

validate_test_cases_task(dir) ==
    Task(Path(dir, "validation_report.md"),
         {Path(dir, "detailed_test_cases.md"), Path(dir, "test_data_sets.json")})

\* tasks = [ ... ] in generate_test_cases
TaskList(dir) ==
    << analyze_requirements_task(dir), generate_test_cases_task(dir),
       generate_test_data_task(dir), validate_test_cases_task(dir) >>

\* Agents constructed by generate_test_cases: one per task, one per list entry.
AgentsPerWorkflow == 8

\* ------------------------------------------------------------------- state
InitRun ==
    [ pc            |-> "idle",
      argc          |-> 0,
      key           |-> "none",
      accessed      |-> {},        \* files opened outside the output directory
      usage         |-> FALSE,     \* usage string printed
      nStdout       |-> 0,         \* JSON objects printed to standard output
      nStderr       |-> 0,         \* JSON objects printed to standard error
      stdoutStatus  |-> "none",    \* 'status' of the object on standard output
      exitCode      |-> None,
      uncaught      |-> FALSE,     \* the process died of an uncaught exception
      err           |-> "none",    \* the first exception raised in the run
      llm           |-> FALSE,     \* ChatOpenAI constructed
      agents        |-> 0,         \* Agent objects constructed
      timestamp     |-> None,      \* the timestamp _create_output_directory took
      output_dir    |-> None,
      dirExisted    |-> FALSE,     \* makedirs found the directory present
      tasks         |-> << >>,
      done          |-> 0,         \* tasks the framework has completed
      kickoffCalled |-> FALSE,
      kickoffReturned |-> FALSE,
      result        |-> "none",
      wrote         |-> {},        \* artifact names this run wrote
      overwrote     |-> {},        \* those that were present before it wrote
      logged        |-> {},
      status        |-> "none" ]

Init ==
    /\ clock = 0
    /\ dirs = {}
    /\ files = [p \in Paths |-> "absent"]
    /\ run = [r \in Runs |-> InitRun]

Set(r, rec) == run' = [run EXCEPT ![r] = rec]

\* The clock advances between any two steps.
Tick ==
    /\ clock < MaxClock
    /\ clock' = clock + 1
    /\ UNCHANGED <<dirs, files, run>>

\* The process is started: argv and the environment are fixed.
Launch(r) ==
    /\ run[r].pc = "idle"
    /\ \E n \in ArgCounts, k \in KeyValues :
          Set(r, [run[r] EXCEPT !.pc = "import", !.argc = n, !.key = k])
    /\ UNCHANGED <<clock, dirs, files>>

\* Variant: the credential check left out.
CredentialMissingNever(k) == FALSE

\* if not OPENAI_API_KEY
CredentialMissing(k) == k \in {"unset", "empty"}

\* Module level, lines 12-27: logging.FileHandler opens the log file,
\* load_dotenv reads .env, the credential check raises ValueError.
ModuleInit(r) ==
    /\ run[r].pc = "import"
    /\ LET a == [run[r] EXCEPT !.accessed = @ \cup {"test_generation.log", ".env"}]
       IN IF CredentialMissing(run[r].key)
            THEN Set(r, [a EXCEPT !.pc = "exited", !.err = "ValueError",
                                  !.uncaught = TRUE, !.exitCode = 1])
            ELSE Set(r, [a EXCEPT !.pc = "guard"])
    /\ UNCHANGED <<clock, dirs, files>>

\* if len(sys.argv) != 2: print usage; sys.exit(1)
Guard(r) ==
    /\ run[r].pc = "guard"
    /\ IF run[r].argc # 1
         THEN Set(r, [run[r] EXCEPT !.pc = "exited", !.usage = TRUE, !.exitCode = 1])
         ELSE Set(r, [run[r] EXCEPT !.pc = "main"])
    /\ UNCHANGED <<clock, dirs, files>>

\* main's handler: print(json.dumps({'error': str(e)}), file=sys.stderr); return 1
MainExcept(rec, e) ==
    [rec EXCEPT !.pc = "exited",
                !.err = IF @ = "none" THEN e ELSE @,
                !.nStderr = @ + 1,
                !.exitCode = 1]

\* doc = Document(file_path); "\n".join(paragraph texts)
ReadDocument(r) ==
    /\ run[r].pc = "main"
    /\ LET a == [run[r] EXCEPT !.accessed = @ \cup {"input"}]
       IN \E ok \in BOOLEAN :
            IF ok THEN Set(r, [a EXCEPT !.pc = "init"])
                  ELSE Set(r, MainExcept(a, "DocumentError"))
    /\ UNCHANGED <<clock, dirs, files>>

\* Variant: os.makedirs without exist_ok.
MakedirsStrict(exists, writable) ==
    IF exists THEN "FileExistsError"
    ELSE IF writable THEN "ok" ELSE "PermissionError"

\* os.makedirs(output_dir, exist_ok=True): an existing directory is accepted.
Makedirs(exists, writable) ==
    IF exists THEN "ok"
    ELSE IF writable THEN "ok" ELSE "PermissionError"

\* TestCaseGenerationCrew.__init__: ChatOpenAI(...), _create_output_directory()
CrewInit(r) ==
    /\ run[r].pc = "init"
    /\ \E llmOk \in BOOLEAN, writable \in BOOLEAN :
         LET stamp == Timestamp(clock)
             made  == Makedirs(stamp \in dirs, writable)
             a     == [run[r] EXCEPT !.llm = TRUE, !.timestamp = stamp,
                                     !.dirExisted = stamp \in dirs]
         IN IF ~llmOk
              THEN /\ Set(r, MainExcept(run[r], "LLMError"))
                   /\ UNCHANGED dirs
              ELSE IF made = "ok"
                THEN /\ dirs' = dirs \cup {stamp}
                     /\ Set(r, [a EXCEPT !.pc = "gen",
                                         !.output_dir = stamp,
                                         !.logged = @ \cup {"initialized"}])
                ELSE /\ Set(r, MainExcept(a, made))
                     /\ UNCHANGED dirs
    /\ UNCHANGED <<clock, files>>

\* generate_test_cases' handler: logging.error(...); return status 'error'
GenExcept(rec, e) ==
    [rec EXCEPT !.pc = "print",
                !.err = IF @ = "none" THEN e ELSE @,
                !.logged = @ \cup {"error_gen"},
                !.status = "error"]

\* generate_test_cases after export_results returned: the 'completed
\* successfully' log line and the success result.
Completed(rec) ==
    [rec EXCEPT !.pc = "print",
                !.logged = @ \cup {"completed"},
                !.status = "success"]

\* Variant: export_results logging the exception without re-raising it.
ExportExceptSwallow(rec, e) ==
    Completed([rec EXCEPT !.err = IF @ = "none" THEN e ELSE @,
                          !.logged = @ \cup {"error_export"}])

\* export_results' handler: logging.error(...); raise
ExportExcept(rec, e) ==
    GenExcept([rec EXCEPT !.logged = @ \cup {"error_export"}], e)

\* open(path, 'w') and doc.save(path): an existing file is replaced.
OpenForWrite(exists, writable) ==
    IF writable THEN "ok" ELSE "PermissionError"

Present(rec, name) == files[Path(rec.output_dir, name)] # "absent"

\* A file of the run's directory is (re)written with content c.
Wrote(rec, name) ==
    [rec EXCEPT !.wrote = @ \cup {name},
                !.overwrote = IF Present(rec, name) THEN @ \cup {name} ELSE @]

Store(rec, name, c) ==
    files' = [files EXCEPT ![Path(rec.output_dir, name)] = c]

\* generate_test_cases up to Crew(...): the task list, the agents, the crew.
BuildTasks(r) ==
    /\ run[r].pc = "gen"
    /\ LET a == [run[r] EXCEPT !.logged = @ \cup {"starting"}]
       IN \E ok \in BOOLEAN :
            IF ok THEN Set(r, [a EXCEPT !.pc = "kickoff",
                                        !.tasks = TaskList(a.output_dir),
                                        !.agents = @ + AgentsPerWorkflow])
                  ELSE Set(r, GenExcept(a, "FrameworkError"))
    /\ UNCHANGED <<clock, dirs, files>>

\* crew.kickoff(): the framework runs the tasks in list order; a task either
\* raises or leaves its output in its output_file.
RunTask(r) ==
    /\ run[r].pc = "kickoff"
    /\ run[r].done < Len(run[r].tasks)
    /\ LET a    == [run[r] EXCEPT !.kickoffCalled = TRUE]
           name == a.tasks[a.done + 1].output_file[2]
       IN \E ok \in BOOLEAN :
            IF ok THEN /\ Store(a, name, "data")
                       /\ Set(r, [Wrote(a, name) EXCEPT !.done = @ + 1])
                  ELSE /\ Set(r, GenExcept(a, "KickoffError"))
                       /\ UNCHANGED files
    /\ UNCHANGED <<clock, dirs>>

\* result = crew.kickoff() returns.
KickoffReturn(r) ==
    /\ run[r].pc = "kickoff"
    /\ run[r].done = Len(run[r].tasks)
    /\ \E k \in ResultKinds :
         Set(r, [run[r] EXCEPT !.pc = "export_word", !.kickoffCalled = TRUE,
                               !.kickoffReturned = TRUE, !.result = k])
    /\ UNCHANGED <<clock, dirs, files>>

\* export_to_word: results.get(...) four times, then doc.save(output_file)
ExportWord(r) ==
    /\ run[r].pc = "export_word"
    /\ \E writable \in BOOLEAN :
         IF run[r].result = "nomapping"
           THEN /\ Set(r, ExportExcept(run[r], "AttributeError"))
                /\ UNCHANGED files
           ELSE IF OpenForWrite(Present(run[r], "Generated_Test_Cases.docx"),
                                writable) = "ok"
             THEN /\ Store(run[r], "Generated_Test_Cases.docx", "data")
                  /\ Set(r, [Wrote(run[r], "Generated_Test_Cases.docx")
                               EXCEPT !.pc = "export_json_open"])
             ELSE /\ Set(r, ExportExcept(run[r], "WordSaveError"))
                  /\ UNCHANGED files
    /\ UNCHANGED <<clock, dirs>>

\* export_to_json: open(output_file, 'w') creates or truncates the file.
OpenJson(r) ==
    /\ run[r].pc = "export_json_open"
    /\ \E writable \in BOOLEAN :
         LET opened == OpenForWrite(Present(run[r], "test_cases_complete.json"),
                                    writable)
         IN IF opened = "ok"
              THEN /\ Store(run[r], "test_cases_complete.json", "empty")
                   /\ Set(r, [Wrote(run[r], "test_cases_complete.json")
                                EXCEPT !.pc = "export_json_dump"])
              ELSE /\ Set(r, ExportExcept(run[r], opened))
                   /\ UNCHANGED files
    /\ UNCHANGED <<clock, dirs>>

\* json.dump(results, f, indent=4) and the end of the with block; then
\* export_results logs and returns, and generate_test_cases completes.
DumpJson(r) ==
    /\ run[r].pc = "export_json_dump"
    /\ IF run[r].result = "mapping_json"
         THEN /\ Store(run[r], "test_cases_complete.json", "data")
              /\ Set(r, Completed([run[r] EXCEPT !.logged = @ \cup {"exported"}]))
         ELSE \E c \in {"empty", "partial"} :
              /\ Store(run[r], "test_cases_complete.json", c)
              /\ Set(r, ExportExcept(run[r], "TypeError"))
    /\ UNCHANGED <<clock, dirs>>

\* Variant: main returning 0 whatever the status.
ExitCodeAlwaysZero(status) == 0

\* return 0 if result['status'] == 'success' else 1
ExitCodeOf(status) == IF status = "success" THEN 0 ELSE 1

\* print(json.dumps(result)): an error result holds strings only; a success
\* result holds the framework's object, whose serialization may raise.
PrintResult(r) ==
    /\ run[r].pc = "print"
    /\ \E ok \in BOOLEAN :
         IF ok \/ run[r].status # "success"
           THEN Set(r, [run[r] EXCEPT !.pc = "exited",
                                      !.nStdout = @ + 1,
                                      !.stdoutStatus = run[r].status,
                                      !.exitCode = ExitCodeOf(run[r].status)])
           ELSE Set(r, MainExcept(run[r], "SerializeError"))
    /\ UNCHANGED <<clock, dirs, files>>

Next ==
    \/ Tick
    \/ \E r \in Runs : Launch(r)
    \/ \E r \in Runs : ModuleInit(r)
    \/ \E r \in Runs : Guard(r)
    \/ \E r \in Runs : ReadDocument(r)
    \/ \E r \in Runs : CrewInit(r)
    \/ \E r \in Runs : BuildTasks(r)
    \/ \E r \in Runs : RunTask(r)
    \/ \E r \in Runs : KickoffReturn(r)
    \/ \E r \in Runs : ExportWord(r)
    \/ \E r \in Runs : OpenJson(r)
    \/ \E r \in Runs : DumpJson(r)
    \/ \E r \in Runs : PrintResult(r)

Spec == Init /\ [][Next]_vars

\* ------------------------------------------------------------------ claims
Exited(r) == run[r].pc = "exited"

\* The run got past the credential check and the argument guard into main().
EnteredMain(r) == "input" \in run[r].accessed

Docx == "Generated_Test_Cases.docx"

Json == "test_cases_complete.json"

NonEmpty(c) == c \in {"partial", "data"}

\* C1: whenever crew.kickoff raised, the finished run has printed exactly one
\* JSON object to standard error and its exit code is 1.
C1_KickoffErrorOnStderr ==
    \A r \in Runs :
        (Exited(r) /\ run[r].err = "KickoffError")
            => (run[r].nStderr = 1 /\ run[r].exitCode = 1)

\* C2: a run started with zero or with two arguments ends having printed the
\* usage string, with exit code 1, and without having opened the log file,
\* .env or any other file.
C2_UsageWithoutFileAccess ==
    \A r \in Runs :
        (Exited(r) /\ run[r].argc # 1)
            => (run[r].usage /\ run[r].exitCode = 1 /\ run[r].accessed = {})

\* C3: every run that ended on a failure (missing credential, unreadable
\* document, framework exception, file-write failure) was caught, not left
\* to kill the process, reported a JSON error object and exited with code 1.
C3_UniformFailureReport ==
    \A r \in Runs :
        (Exited(r) /\ run[r].err # "none")
            => /\ ~run[r].uncaught
               /\ (run[r].nStderr = 1 \/ run[r].stdoutStatus = "error")
               /\ run[r].exitCode = 1

\* C4: a run whose credential is absent never constructs an LLM client or an
\* Agent, never creates an output directory and never calls the
\* orchestrator; it ends at the module-level check with ValueError.
C4_NoConstructionWithoutCredential ==
    \A r \in Runs :
        run[r].key \in {"unset", "empty"}
            => /\ ~run[r].llm
               /\ run[r].agents = 0
               /\ run[r].tasks = << >>
               /\ run[r].timestamp = None
               /\ run[r].output_dir = None
               /\ ~run[r].kickoffCalled
               /\ Exited(r) => (run[r].err = "ValueError" /\ run[r].exitCode = 1)

C4_Witness ==
    \E r \in Runs :
        run[r].key = "unset" /\ run[r].argc = 1 /\ Exited(r) /\ run[r].uncaught

\* C5: at the step at which a run ends with exit code 0, each of the six
\* artifact files of its output directory is present and non-empty.
C5_ArtifactsOnSuccess ==
    [][ \A r \in Runs :
          (~Exited(r) /\ run'[r].pc = "exited" /\ run'[r].exitCode = 0)
              => \A n \in FileNames :
                    NonEmpty(files'[Path(run'[r].output_dir, n)]) ]_vars

\* C6: no run ever fails because its directory or one of its files was
\* already there: a run that finds the directory of its timestamp present
\* takes it as its output directory, and no FileExistsError is ever raised.
C6_SameSecondNoCrash ==
    \A r \in Runs :
        /\ run[r].err # "FileExistsError"
        /\ run[r].dirExisted => (run[r].output_dir = run[r].timestamp /\ ~run[r].uncaught)

C6_Witness ==
    \E r1, r2 \in Runs :
        /\ r1 # r2
        /\ run[r1].output_dir = run[r2].output_dir
        /\ run[r2].dirExisted
        /\ {Docx, Json} \subseteq run[r2].overwrote
        /\ Exited(r1) /\ run[r1].exitCode = 0
        /\ Exited(r2) /\ run[r2].exitCode = 0

\* C7: no two distinct runs write artifacts into the same directory.
C7_OwnDirectory ==
    \A r1, r2 \in Runs :
        (r1 # r2 /\ run[r1].wrote # {} /\ run[r2].wrote # {})
            => run[r1].output_dir # run[r2].output_dir

\* C8: the task list is analyze, generate cases, generate data, validate; the
\* first task declares no dependency and every dependency of a task is the
\* output_file of a strictly earlier task, in the run's own directory.
C8_DependenciesPrecede ==
    \A r \in Runs :
        run[r].tasks # << >> =>
            LET t == run[r].tasks
                d == run[r].output_dir
            IN /\ Len(t) = 4
               /\ t[1].output_file = Path(d, "requirements_analysis.md")
               /\ t[2].output_file = Path(d, "detailed_test_cases.md")
               /\ t[3].output_file = Path(d, "test_data_sets.json")
               /\ t[4].output_file = Path(d, "validation_report.md")
               /\ t[1].dependencies = {}
               /\ \A i \in 1 .. Len(t) : \A dep \in t[i].dependencies :
                     /\ dep[1] = d
                     /\ \E j \in 1 .. (i - 1) : t[j].output_file = dep

C8_Witness ==
    \E r \in Runs : run[r].tasks # << >> /\ run[r].kickoffReturned

\* C9: the Word and JSON files are written only after kickoff returned, the
\* JSON file only after the Word file; a run whose Word export failed never
\* writes the JSON file, never logs 'completed successfully', and ends with
\* status 'error' and exit code 1.
C9_WordFailureStopsExport ==
    \A r \in Runs :
        /\ (run[r].wrote \cap {Docx, Json} # {}) => run[r].kickoffReturned
        /\ Json \in run[r].wrote => Docx \in run[r].wrote
        /\ run[r].err \in {"AttributeError", "WordSaveError"}
             => /\ Json \notin run[r].wrote
                /\ "completed" \notin run[r].logged
                /\ run[r].status = "error"
                /\ Exited(r) => run[r].exitCode = 1

C9_Witness ==
    \E r \in Runs :
        /\ run[r].err = "WordSaveError" /\ Exited(r)
        /\ run[r].kickoffReturned /\ run[r].done = 4

\* C10: a finished run that entered main() has emitted exactly one JSON
\* object over both streams; its exit code is 0 exactly when that object is
\* the 'success' status on standard output, printed after kickoff returned
\* and both exports completed; a run whose success result could not be
\* serialized exits with 1 although all six artifacts were written.
C10_OneObjectAndExitCode ==
    \A r \in Runs :
        (Exited(r) /\ EnteredMain(r)) =>
            /\ run[r].nStdout + run[r].nStderr = 1
            /\ run[r].exitCode = 0 <=>
                  /\ run[r].nStdout = 1
                  /\ run[r].stdoutStatus = "success"
                  /\ run[r].kickoffReturned
                  /\ {Docx, Json} \subseteq run[r].wrote
                  /\ "exported" \in run[r].logged
            /\ run[r].err = "SerializeError"
                  => (run[r].exitCode = 1 /\ run[r].wrote = FileNames)

C10_Witness ==
    \E r \in Runs :
        /\ Exited(r) /\ run[r].err = "SerializeError"
        /\ run[r].wrote = FileNames /\ run[r].nStderr = 1
====
